---- MODULE Spec2Model ----
(***************************************************************************)
(* Model of zps_compilador.py: the ZPS141 compiler.  One run of main()     *)
(* lists a Drive folder, picks BANCO.xlsx and the most recent              *)
(* "BUSCA ZPS141 - DD.MM.AAAA" file, filters the BANCO on column N,        *)
(* extracts B6:AJ of the file of the day, appends it, removes duplicates,  *)
(* uploads the BANCO and writes a timestamp.                               *)
(*                                                                         *)
(* Text is a sequence of one-character strings.  A cell is NaN / pd.NA, a   *)
(* number or a text.  A DataFrame is                                       *)
(* [cols |-> sequence of column labels, rows |-> sequence of rows], every  *)
(* row holding one cell per label, in the order of cols.                   *)
(***************************************************************************)
EXTENDS Integers, Sequences, FiniteSets

VARIABLES pc, erro, feitas, arquivos, arquivo_banco, arquivo_hoje,
          df_banco, df_hoje, dados_hoje, removidas, salvo,
          banco_lido, banco_filtrado, banco_anexado

vars == <<pc, erro, feitas, arquivos, arquivo_banco, arquivo_hoje,
          df_banco, df_hoje, dados_hoje, removidas, salvo,
          banco_lido, banco_filtrado, banco_anexado>>

(***************************************************************************)
(* Bounds of the model.                                                    *)
(***************************************************************************)
MaxFiles == 3

MaxLinhas == 3

(***************************************************************************)
(* Text.                                                                   *)
(***************************************************************************)
Min(a, b) == IF a < b THEN a ELSE b

\* str.startswith
StartsWith(s, p) == Len(s) >= Len(p) /\ SubSeq(s, 1, Len(p)) = p

\* s[:n]
Take(s, n) == SubSeq(s, 1, Min(n, Len(s)))

\* s[n:]
Drop(s, n) == SubSeq(s, n + 1, Len(s))

Whitespace == {" "}

RECURSIVE LStrip(_)
LStrip(s) ==
    IF s # <<>> /\ s[1] \in Whitespace THEN LStrip(Drop(s, 1)) ELSE s

RECURSIVE RStrip(_)
RStrip(s) ==
    IF s # <<>> /\ s[Len(s)] \in Whitespace
    THEN RStrip(SubSeq(s, 1, Len(s) - 1)) ELSE s

\* str.strip
Strip(s) == RStrip(LStrip(s))

Digits == <<"0", "1", "2", "3", "4", "5", "6", "7", "8", "9">>

IsDigit(c) == \E i \in 1..10 : Digits[i] = c

DigitVal(c) == (CHOOSE i \in 1..10 : Digits[i] = c) - 1

(***************************************************************************)
(* Configuration.                                                          *)
(***************************************************************************)
BANCO_NAME == <<"B", "A", "N", "C", "O", ".", "x", "l", "s", "x">>

BUSCA_PREFIX ==
    <<"B", "U", "S", "C", "A", " ", "Z", "P", "S", "1", "4", "1", " ", "-", " ">>

HEADER_ROWS_BANCO == 1

(***************************************************************************)
(* datetime.strptime(data_str, "%d.%m.%Y").  The format compiles to the    *)
(* regular expression                                                      *)
(*   (3[0-1]|[1-2]\d|0[1-9]|[1-9]| [1-9])\.(1[0-2]|0[1-9]|[1-9])\.(\d\d\d\d) *)
(* matched at the start of the text; a match that leaves text unconverted, *)
(* or a day the month does not have, is a ValueError.  NoDate stands for   *)
(* the ValueError (and for None in data_mais_recente).                     *)
(***************************************************************************)
NoDate == [y |-> 0, m |-> 0, d |-> 0]

\* The length the k-th alternative of %d matches at the start of s, 0 if none.
DayAlt(s, k) ==
    CASE k = 1 -> IF Len(s) >= 2 /\ s[1] = "3" /\ s[2] \in {"0", "1"} THEN 2 ELSE 0
      [] k = 2 -> IF Len(s) >= 2 /\ s[1] \in {"1", "2"} /\ IsDigit(s[2]) THEN 2 ELSE 0
      [] k = 3 -> IF Len(s) >= 2 /\ s[1] = "0" /\ IsDigit(s[2]) /\ s[2] # "0" THEN 2 ELSE 0
      [] k = 4 -> IF Len(s) >= 1 /\ IsDigit(s[1]) /\ s[1] # "0" THEN 1 ELSE 0
      [] OTHER -> IF Len(s) >= 2 /\ s[1] = " " /\ IsDigit(s[2]) /\ s[2] # "0" THEN 2 ELSE 0

\* The length the k-th alternative of %m matches at the start of s, 0 if none.
MonthAlt(s, k) ==
    CASE k = 1 -> IF Len(s) >= 2 /\ s[1] = "1" /\ s[2] \in {"0", "1", "2"} THEN 2 ELSE 0
      [] k = 2 -> IF Len(s) >= 2 /\ s[1] = "0" /\ IsDigit(s[2]) /\ s[2] # "0" THEN 2 ELSE 0
      [] OTHER -> IF Len(s) >= 1 /\ IsDigit(s[1]) /\ s[1] # "0" THEN 1 ELSE 0

\* int() of a matched group (a leading space is ignored by int()).
RECURSIVE IntOf(_)
IntOf(s) ==
    IF s = <<>> THEN 0
    ELSE IF s[Len(s)] = " " THEN 0
    ELSE 10 * IntOf(SubSeq(s, 1, Len(s) - 1)) + DigitVal(s[Len(s)])

IsLeap(y) == (y % 4 = 0) /\ ((y % 100 # 0) \/ (y % 400 = 0))

DaysInMonth(y, m) ==
    IF m = 2 THEN (IF IsLeap(y) THEN 29 ELSE 28)
    ELSE IF m \in {4, 6, 9, 11} THEN 30 ELSE 31

\* Whether the regular expression matches s with day alternative kd and month
\* alternative km.
RegexMatches(s, kd, km) ==
    LET ld == DayAlt(s, kd)
        r1 == Drop(s, ld)
        lm == MonthAlt(Drop(r1, 1), km)
        r2 == Drop(Drop(r1, 1), lm)
    IN  /\ ld > 0
        /\ r1 # <<>> /\ r1[1] = "."
        /\ lm > 0
        /\ r2 # <<>> /\ r2[1] = "."
        /\ Len(r2) >= 5
        /\ \A i \in 2..5 : IsDigit(r2[i])

strptime(s) ==
    LET alts == {<<kd, km>> \in (1..5) \X (1..3) : RegexMatches(s, kd, km)}
    IN  IF alts = {} THEN NoDate
        ELSE
          LET first == CHOOSE a \in alts : \A b \in alts :
                           a[1] < b[1] \/ (a[1] = b[1] /\ a[2] <= b[2])
              ld == DayAlt(s, first[1])
              lm == MonthAlt(Drop(s, ld + 1), first[2])
              d  == IntOf(SubSeq(s, 1, ld))
              m  == IntOf(SubSeq(s, ld + 2, ld + 1 + lm))
              y  == IntOf(SubSeq(s, ld + lm + 3, ld + lm + 6))
          IN  IF Len(s) # ld + lm + 6 THEN NoDate          \* unconverted data remains
              ELSE IF y < 1 \/ d > DaysInMonth(y, m) THEN NoDate
              ELSE [y |-> y, m |-> m, d |-> d]

\* dt > other on datetimes
DtGreater(a, b) ==
    \/ a.y > b.y
    \/ a.y = b.y /\ a.m > b.m
    \/ a.y = b.y /\ a.m = b.m /\ a.d > b.d

(***************************************************************************)
(* encontrar_busca_mais_recente.                                           *)
(***************************************************************************)
NoneFile == [id |-> 0, name |-> <<>>, modifiedTime |-> 0]

DATA_STR_LEN == 10

RestoSemStrip(nome, prefixo) == Drop(nome, Len(prefixo))

\* resto = nome[len(prefixo):].strip()
Resto(nome, prefixo) == Strip(Drop(nome, Len(prefixo)))

\* data_str = resto[:10]
DataStr(nome, prefixo) == Take(Resto(nome, prefixo), DATA_STR_LEN)

SubstituiOuIgual(dt, data_mais_recente) ==
    data_mais_recente = NoDate \/ ~DtGreater(data_mais_recente, dt)

\* if data_mais_recente is None or dt > data_mais_recente
Substitui(dt, data_mais_recente) ==
    data_mais_recente = NoDate \/ DtGreater(dt, data_mais_recente)

\* The for loop from its i-th iteration on.
RECURSIVE BuscaLoop(_, _, _, _, _)
BuscaLoop(arqs, prefixo, i, mais_recente, data_mais_recente) ==
    IF i > Len(arqs) THEN mais_recente
    ELSE
      LET f    == arqs[i]
          nome == f.name
      IN  IF ~StartsWith(nome, prefixo)
          THEN BuscaLoop(arqs, prefixo, i + 1, mais_recente, data_mais_recente)
          ELSE
            LET dt == strptime(DataStr(nome, prefixo))
            IN  IF dt = NoDate
                THEN BuscaLoop(arqs, prefixo, i + 1, mais_recente, data_mais_recente)
                ELSE IF Substitui(dt, data_mais_recente)
                THEN BuscaLoop(arqs, prefixo, i + 1, f, dt)
                ELSE BuscaLoop(arqs, prefixo, i + 1, mais_recente, data_mais_recente)

encontrar_busca_mais_recente(arqs, prefixo) ==
    BuscaLoop(arqs, prefixo, 1, NoneFile, NoDate)

(***************************************************************************)
(* Cells and DataFrames.                                                   *)
(*                                                                         *)
(* A cell is held as an atom; Celula gives the value the atom stands for:    *)
(* NaN, a number or a text.  Two cells are the same value exactly when     *)
(* they are the same atom (the number 1 and the text "1" are not).         *)
Null == "NaN"

N1 == "num 1"

SVazio == "str ''"

S1 == "str '1'"

SA == "str 'A'"

ST == "str 'T'"

SY1 == "str 'Y1'"

Sy1 == "str 'y1'"

SN2 == "str 'N2'"

Celula(c) ==
    CASE c = Null   -> [t |-> "na"]
      [] c = N1     -> [t |-> "num", v |-> 1]
      [] c = SVazio -> [t |-> "str", s |-> <<>>]
      [] c = S1     -> [t |-> "str", s |-> <<"1">>]
      [] c = SA     -> [t |-> "str", s |-> <<"A">>]
      [] c = ST     -> [t |-> "str", s |-> <<"T">>]
      [] c = SY1    -> [t |-> "str", s |-> <<"Y", "1">>]
      [] c = Sy1    -> [t |-> "str", s |-> <<"y", "1">>]
      [] c = SN2    -> [t |-> "str", s |-> <<"N", "2">>]

RECURSIVE NumText(_)
NumText(v) ==
    IF v < 10 THEN <<Digits[v + 1]>>
    ELSE NumText(v \div 10) \o <<Digits[(v % 10) + 1]>>

\* Series.astype(str), cell by cell: NaN becomes the text "nan".
AsTypeStr(c) ==
    LET x == Celula(c)
    IN  CASE x.t = "na"  -> <<"n", "a", "n">>
          [] x.t = "num" -> NumText(x.v)
          [] OTHER       -> x.s

Width(df) == Len(df.cols)

NRows(df) == Len(df.rows)

\* DataFrame.empty
Empty(df) == NRows(df) = 0 \/ Width(df) = 0

\* range(n) as column labels
RangeLabels(n) == [j \in 1..n |-> j - 1]

\* The position of a label in a sequence of labels, 0 if absent.
PosOf(cols, label) ==
    IF \E i \in 1..Len(cols) : cols[i] = label
    THEN CHOOSE i \in 1..Len(cols) : cols[i] = label
    ELSE 0

\* Rows of a frame with columns `de`, laid out on the columns `para`: a label
\* that `de` lacks gives NaN.
ReindexRows(rows, de, para) ==
    LET onde == SubSeq([j \in 1..Len(para) |-> PosOf(de, para[j])], 1, Len(para))
    IN  [i \in 1..Len(rows) |->
            [j \in 1..Len(para) |-> IF onde[j] = 0 THEN Null ELSE rows[i][onde[j]]]]

\* pd.concat([a, b], ignore_index=True): the columns are the labels of a, then
\* the labels of b that a lacks (outer join, sort=False); rows are aligned by
\* label and a missing cell is NaN.
Concat(a, b) ==
    LET novos == SelectSeq(b.cols, LAMBDA l : PosOf(a.cols, l) = 0)
        cols  == a.cols \o novos
    IN  [cols |-> cols,
         rows |-> ReindexRows(a.rows, a.cols, cols) \o ReindexRows(b.rows, b.cols, cols)]

\* df.iloc[:n, :]
IlocHead(df, n) == [cols |-> df.cols, rows |-> Take(df.rows, n)]

\* df.iloc[n:, :]
IlocTail(df, n) == [cols |-> df.cols, rows |-> Drop(df.rows, n)]

(***************************************************************************)
(* Step 1: keep the data rows of the BANCO whose column N starts with "Y". *)
(***************************************************************************)
COL_N == 13

SemColunaN(df) == Width(df) <= COL_N

MaskKeepInvertida(row) == ~StartsWith(AsTypeStr(row[COL_N + 1]), <<"Y">>)

\* colN = dados_banco.iloc[:, 13].astype(str); colN.str.startswith("Y", na=False)
MaskKeep(row) == StartsWith(AsTypeStr(row[COL_N + 1]), <<"Y">>)

\* removidas = int((~mask_keep).sum())
Removidas(df) ==
    Cardinality({i \in (HEADER_ROWS_BANCO + 1)..NRows(df) : ~MaskKeep(df.rows[i])})

FiltrarTudo(df) ==
    [cols |-> df.cols, rows |-> SelectSeq(df.rows, MaskKeep)]

FiltrarBanco(df) ==
    LET header_banco == IlocHead(df, HEADER_ROWS_BANCO)
        dados_banco  == IlocTail(df, HEADER_ROWS_BANCO)
        dados_banco_filtrado ==
            [cols |-> dados_banco.cols, rows |-> SelectSeq(dados_banco.rows, MaskKeep)]
    IN  Concat(header_banco, dados_banco_filtrado)

(***************************************************************************)
(* Step 2: B6:AJ of the file of the day, blank rows dropped.               *)
(***************************************************************************)
ROW_OFFSET == 5

COL_START == 1

COL_END == 36

\* DataFrame.replace("", pd.NA), cell by cell
ReplaceEmpty(c) == IF c = SVazio THEN Null ELSE c

\* isna().all(axis=1) of a row
AllNa(row) == \A j \in 1..Len(row) : row[j] = Null

\* df_hoje.iloc[5:, 1:36]
IlocRegiao(df) ==
    LET ate == Min(COL_END, Width(df))
    IN  [cols |-> SubSeq(df.cols, COL_START + 1, ate),
         rows |-> [i \in 1..(IF NRows(df) > ROW_OFFSET THEN NRows(df) - ROW_OFFSET ELSE 0) |->
                      SubSeq(df.rows[i + ROW_OFFSET], COL_START + 1, ate)]]

ExtrairSemSuprimir(df) ==
    LET regiao == IlocRegiao(df)
    IN  [cols |-> regiao.cols,
         rows |-> [i \in 1..NRows(regiao) |->
                      [j \in 1..Width(regiao) |-> ReplaceEmpty(regiao.rows[i][j])]]]

ExtrairHoje(df) ==
    LET regiao == IlocRegiao(df)
        trocado == [i \in 1..NRows(regiao) |->
                       [j \in 1..Width(regiao) |-> ReplaceEmpty(regiao.rows[i][j])]]
    IN  [cols |-> regiao.cols,
         rows |-> SelectSeq(trocado, LAMBDA row : ~AllNa(row))]

(***************************************************************************)
(* Step 3: append.                                                         *)
(***************************************************************************)
\* df[label] = pd.NA: a new last column, or an existing column overwritten.
AddColumn(df, label) ==
    IF PosOf(df.cols, label) = 0
    THEN [cols |-> Append(df.cols, label),
          rows |-> [i \in 1..NRows(df) |-> Append(df.rows[i], Null)]]
    ELSE [cols |-> df.cols,
          rows |-> [i \in 1..NRows(df) |->
                       [df.rows[i] EXCEPT ![PosOf(df.cols, label)] = Null]]]

\* for i in range(extra): df_banco[df_banco.shape[1] + i] = pd.NA
\* (df_banco.shape[1] is read anew in every iteration).
RECURSIVE WidenLoop(_, _, _)
WidenLoop(df, i, extra) ==
    IF i >= extra THEN df
    ELSE WidenLoop(AddColumn(df, Width(df) + i), i + 1, extra)

AppendHoje(banco, hoje) ==
    IF Empty(hoje) THEN banco
    ELSE
      LET renomeado == [cols |-> RangeLabels(Width(hoje)), rows |-> hoje.rows]
          alargado  == IF Width(banco) < Width(renomeado)
                       THEN WidenLoop(banco, 0, Width(renomeado) - Width(banco))
                       ELSE banco
      IN  Concat(alargado, renomeado)

(***************************************************************************)
(* Step 4: drop duplicates, ignoring columns A, C, D and U.                *)
(***************************************************************************)
COLUNAS_IGNORADAS == {0, 2, 3, 20}

\* subset = [c for c in colunas_todas if c not in (0, 2, 3, 20)]
Subset(cols) == SelectSeq(cols, LAMBDA c : c \notin COLUNAS_IGNORADAS)

\* The cells of every row at the labels of subset.
KeysOf(rows, cols, subset) ==
    LET onde == SubSeq([k \in 1..Len(subset) |-> PosOf(cols, subset[k])], 1, Len(subset))
    IN  [i \in 1..Len(rows) |->
            SubSeq([k \in 1..Len(subset) |-> rows[i][onde[k]]], 1, Len(subset))]

DropDuplicatesLast(rows, cols, subset) ==
    LET keys == KeysOf(rows, cols, subset)
        dup(i) == \E j \in (i + 1)..Len(rows) : keys[j] = keys[i]
        RECURSIVE Keep(_)
        Keep(i) == IF i > Len(rows) THEN <<>>
                   ELSE (IF dup(i) THEN <<>> ELSE <<rows[i]>>) \o Keep(i + 1)
    IN  Keep(1)

\* DataFrame.drop_duplicates(subset=subset, keep="first"): a row is dropped when
\* an earlier row holds equal values (NaN equal to NaN) in the subset columns.
DropDuplicates(rows, cols, subset) ==
    LET keys == KeysOf(rows, cols, subset)
        RECURSIVE Loop(_, _, _)
        Loop(i, vistos, out) ==
            IF i > Len(rows) THEN out
            ELSE IF keys[i] \in vistos THEN Loop(i + 1, vistos, out)
            ELSE Loop(i + 1, vistos \cup {keys[i]}, Append(out, rows[i]))
    IN  Loop(1, {}, <<>>)

DeduplicarSemCabecalho(df) ==
    LET dados_banco == IlocTail(df, HEADER_ROWS_BANCO)
    IN  IF Empty(dados_banco) THEN df
        ELSE [cols |-> dados_banco.cols,
              rows |-> DropDuplicates(dados_banco.rows, dados_banco.cols,
                                      Subset(dados_banco.cols))]

DeduplicarBanco(df) ==
    LET header_banco == IlocHead(df, HEADER_ROWS_BANCO)
        dados_banco  == IlocTail(df, HEADER_ROWS_BANCO)
    IN  IF Empty(dados_banco) THEN df
        ELSE
          LET dados_banco_sem_dup ==
                  [cols |-> dados_banco.cols,
                   rows |-> DropDuplicates(dados_banco.rows, dados_banco.cols,
                                           Subset(dados_banco.cols))]
          IN  Concat(header_banco, dados_banco_sem_dup)

(***************************************************************************)
(* Step 5 and 6: upload and timestamp.  A call to Drive, Sheets or the     *)
(* Excel reader either returns or raises; an exception leaves main().      *)
(***************************************************************************)
AposChamadaEngolida(ok, proximo) == proximo

\* Where main() stands after a call that returned (ok) or raised.
AposChamada(ok, proximo) == IF ok THEN proximo ELSE "abortado"

\* What df.to_excel(index=False, header=False) writes: the grid of cells, by
\* position, without the labels.
NaoSalvo == [gravado |-> FALSE, linhas |-> <<>>]

Planilha(df) == [gravado |-> TRUE, linhas |-> df.rows]

NoFrame == [cols |-> <<>>, rows |-> <<>>]

(***************************************************************************)
(* Inputs: the folder listings and the two workbooks a run may meet.       *)
(***************************************************************************)
Nome(resto) == BUSCA_PREFIX \o resto

OUTRO_NAME == <<"o", "t", "h", "e", "r", ".", "x", "l", "s", "x">>

\* Names of the folder of the selector runs.
NomesPasta ==
    { Nome(<<"0", "1", ".", "0", "3", ".", "2", "0", "2", "4">>),
      Nome(<<"1", "5", ".", "0", "3", ".", "2", "0", "2", "4">>),
      Nome(<<"1", "5", ".", "0", "3", ".", "2", "0", "2", "4", ".", "x", "l", "s", "x">>),
      Nome(<<" ", "1", "5", ".", "0", "3", ".", "2", "0", "2", "4">>),
      Nome(<<"2", "9", ".", "0", "2", ".", "2", "0", "2", "3">>),
      Nome(<<"2", "0", ".", "1", "2", ".", "2", "0", "2", "3">>),
      Nome(<<"1", ".", "3", ".", "2", "0", "2", "4">>),
      OUTRO_NAME }

ModifiedTimes == {1, 2}

\* The listing of n files with the given names and times: ids are positions.
Listagem(n, nm, mt) == [i \in 1..n |-> [id |-> i, name |-> nm[i], modifiedTime |-> mt[i]]]

Arq(i, nome) == [id |-> i, name |-> nome, modifiedTime |-> 1]

\* Listings of the full runs.
ListagensMain ==
    { <<>>,
      <<Arq(1, OUTRO_NAME), Arq(2, Nome(<<"1", "5", ".", "0", "3", ".", "2", "0", "2", "4">>))>>,
      <<Arq(1, BANCO_NAME), Arq(2, Nome(<<"3", "1", ".", "0", "2", ".", "2", "0", "2", "4">>))>>,
      <<Arq(1, Nome(<<"0", "1", ".", "0", "3", ".", "2", "0", "2", "4">>)),
        Arq(2, BANCO_NAME),
        Arq(3, Nome(<<"1", "5", ".", "0", "3", ".", "2", "0", "2", "4">>))>> }

\* A row of n cells: "1" in columns A..M, x13 in column N, blank from O on.
Base(n, x13) ==
    [j \in 1..n |-> IF j - 1 < COL_N THEN S1 ELSE IF j - 1 = COL_N THEN x13 ELSE Null]

\* The row with the cell of column c (0-based) replaced, if it has that column.
With(row, c, v) == IF c + 1 <= Len(row) THEN [row EXCEPT ![c + 1] = v] ELSE row

\* Data rows of a BANCO of width m.
LinhasBanco(m) ==
    << Base(m, SY1),
       With(Base(m, SY1), 1, N1),
       With(With(Base(m, SY1), 0, SA), 20, SA),
       Base(m, Sy1),
       Base(m, Null) >>

\* Rows of B..AJ of a file of the day whose region has d columns.
LinhasRegiao(d) ==
    << Base(d, SY1),
       Base(d, SN2),
       With([j \in 1..d |-> Null], 0, SVazio),
       With(With(Base(d, SY1), 0, SVazio), d - 1, SA) >>

\* A row of a file of the day of width w: column A, the region, what follows AJ.
LinhaArquivo(w, regiao) ==
    [j \in 1..w |-> IF j = 1 \/ j > COL_END THEN SA ELSE regiao[j - 1]]

\* The rows above row 6 of a file of the day: titles, not blank.
Titulo(w) == LinhaArquivo(w, With([j \in 1..(Min(w, COL_END) - 1) |-> Null], 0, ST))

\* Sequences over 1..n of length at most k.
SeqsUpTo(n, k) == UNION { [1..l -> 1..n] : l \in 0..k }

\* (width of the BANCO, width of the file of the day)
Larguras == { <<13, 16>>, <<14, 16>>, <<14, 17>>, <<22, 17>>, <<14, 37>> }

BancoDe(m, idx) ==
    [cols |-> RangeLabels(m),
     rows |-> <<Base(m, SN2)>> \o [i \in 1..Len(idx) |-> LinhasBanco(m)[idx[i]]]]

HojeDe(w, idx) ==
    [cols |-> RangeLabels(w),
     rows |-> [i \in 1..ROW_OFFSET |-> Titulo(w)]
              \o [i \in 1..Len(idx) |->
                     LinhaArquivo(w, LinhasRegiao(Min(w, COL_END) - 1)[idx[i]])]]

(***************************************************************************)
(* main().                                                                 *)
(***************************************************************************)
Init ==
    /\ pc = "inicio"
    /\ erro = ""
    /\ feitas = <<>>
    /\ arquivos = <<>>
    /\ arquivo_banco = NoneFile
    /\ arquivo_hoje = NoneFile
    /\ df_banco = NoFrame
    /\ df_hoje = NoFrame
    /\ dados_hoje = NoFrame
    /\ removidas = 0
    /\ salvo = NaoSalvo
    /\ banco_lido = NoFrame
    /\ banco_filtrado = NoFrame
    /\ banco_anexado = NoFrame

Abortar(motivo) ==
    /\ pc' = "abortado"
    /\ erro' = motivo
    /\ feitas' = Append(feitas, "abortado")

\* A boundary call that returned goes on to `proximo`; one that raised aborts.
Seguir(ok, etapa, proximo) ==
    /\ pc' = AposChamada(ok, proximo)
    /\ erro' = IF pc' = "abortado" THEN "falha_externa" ELSE erro
    /\ feitas' = feitas \o (IF ok THEN <<etapa>> ELSE <<>>)
                        \o (IF pc' = "abortado" THEN <<"abortado">> ELSE <<>>)

Autenticar ==
    /\ pc = "inicio"
    /\ \E ok \in BOOLEAN : Seguir(ok, "autenticar", "listar")
    /\ UNCHANGED <<arquivos, arquivo_banco, arquivo_hoje, df_banco, df_hoje,
                   dados_hoje, removidas, salvo, banco_lido, banco_filtrado,
                   banco_anexado>>

ListarArquivos ==
    /\ pc = "listar"
    /\ \E ok \in BOOLEAN, lista \in ListagensMain :
         IF ok /\ lista = <<>>
         THEN Abortar("lista_vazia") /\ arquivos' = lista
         ELSE Seguir(ok, "listar", "localizar_banco")
              /\ arquivos' = IF ok THEN lista ELSE arquivos
    /\ UNCHANGED <<arquivo_banco, arquivo_hoje, df_banco, df_hoje,
                   dados_hoje, removidas, salvo, banco_lido, banco_filtrado,
                   banco_anexado>>

\* next((f for f in arquivos if f.get("name") == BANCO_NAME), None)
PrimeiroBanco(arqs) ==
    IF \E i \in 1..Len(arqs) : arqs[i].name = BANCO_NAME
    THEN arqs[CHOOSE i \in 1..Len(arqs) :
                 /\ arqs[i].name = BANCO_NAME
                 /\ \A j \in 1..(i - 1) : arqs[j].name # BANCO_NAME]
    ELSE NoneFile

LocalizarBanco ==
    /\ pc = "localizar_banco"
    /\ arquivo_banco' = PrimeiroBanco(arquivos)
    /\ IF arquivo_banco' = NoneFile
       THEN Abortar("sem_banco")
       ELSE Seguir(TRUE, "localizar_banco", "localizar_busca")
    /\ UNCHANGED <<arquivos, arquivo_hoje, df_banco, df_hoje,
                   dados_hoje, removidas, salvo, banco_lido, banco_filtrado,
                   banco_anexado>>

LocalizarBusca ==
    /\ pc = "localizar_busca"
    /\ arquivo_hoje' = encontrar_busca_mais_recente(arquivos, BUSCA_PREFIX)
    /\ IF arquivo_hoje' = NoneFile
       THEN Abortar("sem_busca")
       ELSE Seguir(TRUE, "localizar_busca", "baixar_hoje")
    /\ UNCHANGED <<arquivos, arquivo_banco, df_banco, df_hoje,
                   dados_hoje, removidas, salvo, banco_lido, banco_filtrado,
                   banco_anexado>>

BaixarHoje ==
    /\ pc = "baixar_hoje"
    /\ \E ok \in BOOLEAN : Seguir(ok, "baixar_hoje", "baixar_banco")
    /\ UNCHANGED <<arquivos, arquivo_banco, arquivo_hoje, df_banco, df_hoje,
                   dados_hoje, removidas, salvo, banco_lido, banco_filtrado,
                   banco_anexado>>

BaixarBanco ==
    /\ pc = "baixar_banco"
    /\ \E ok \in BOOLEAN : Seguir(ok, "baixar_banco", "ler")
    /\ UNCHANGED <<arquivos, arquivo_banco, arquivo_hoje, df_banco, df_hoje,
                   dados_hoje, removidas, salvo, banco_lido, banco_filtrado,
                   banco_anexado>>

LerPlanilhas ==
    /\ pc = "ler"
    /\ \E ok \in BOOLEAN, lg \in Larguras,
          ib \in SeqsUpTo(Len(LinhasBanco(14)), MaxLinhas),
          ih \in SeqsUpTo(Len(LinhasRegiao(14)), MaxLinhas) :
         /\ Len(ib) + Len(ih) <= MaxLinhas
         /\ Seguir(ok, "ler", "filtrar")
         /\ df_banco' = IF ok THEN BancoDe(lg[1], ib) ELSE df_banco
         /\ df_hoje' = IF ok THEN HojeDe(lg[2], ih) ELSE df_hoje
         /\ banco_lido' = df_banco'
    /\ UNCHANGED <<arquivos, arquivo_banco, arquivo_hoje,
                   dados_hoje, removidas, salvo, banco_filtrado, banco_anexado>>

Filtrar ==
    /\ pc = "filtrar"
    /\ IF SemColunaN(df_banco)
       THEN /\ Abortar("sem_coluna_N")
            /\ UNCHANGED <<df_banco, removidas, banco_filtrado>>
       ELSE /\ Seguir(TRUE, "filtrar", "extrair")
            /\ removidas' = Removidas(df_banco)
            /\ df_banco' = FiltrarBanco(df_banco)
            /\ banco_filtrado' = df_banco'
    /\ UNCHANGED <<arquivos, arquivo_banco, arquivo_hoje, df_hoje,
                   dados_hoje, salvo, banco_lido, banco_anexado>>

Extrair ==
    /\ pc = "extrair"
    /\ Seguir(TRUE, "extrair", "append")
    /\ dados_hoje' = ExtrairHoje(df_hoje)
    /\ UNCHANGED <<arquivos, arquivo_banco, arquivo_hoje, df_banco, df_hoje,
                   removidas, salvo, banco_lido, banco_filtrado, banco_anexado>>

Anexar ==
    /\ pc = "append"
    /\ Seguir(TRUE, "append", "dedup")
    /\ df_banco' = AppendHoje(df_banco, dados_hoje)
    /\ dados_hoje' = IF Empty(dados_hoje) THEN dados_hoje
                     ELSE [cols |-> RangeLabels(Width(dados_hoje)), rows |-> dados_hoje.rows]
    /\ banco_anexado' = df_banco'
    /\ UNCHANGED <<arquivos, arquivo_banco, arquivo_hoje, df_hoje,
                   removidas, salvo, banco_lido, banco_filtrado>>

Deduplicar ==
    /\ pc = "dedup"
    /\ Seguir(TRUE, "dedup", "salvar")
    /\ df_banco' = DeduplicarBanco(df_banco)
    /\ UNCHANGED <<arquivos, arquivo_banco, arquivo_hoje, df_hoje, dados_hoje,
                   removidas, salvo, banco_lido, banco_filtrado, banco_anexado>>

Salvar ==
    /\ pc = "salvar"
    /\ \E ok \in BOOLEAN :
         /\ Seguir(ok, "salvar", "timestamp")
         /\ salvo' = IF ok THEN Planilha(df_banco) ELSE salvo
    /\ UNCHANGED <<arquivos, arquivo_banco, arquivo_hoje, df_banco, df_hoje,
                   dados_hoje, removidas, banco_lido, banco_filtrado, banco_anexado>>

RegistrarTimestamp ==
    /\ pc = "timestamp"
    /\ \E ok \in BOOLEAN : Seguir(ok, "timestamp", "fim")
    /\ UNCHANGED <<arquivos, arquivo_banco, arquivo_hoje, df_banco, df_hoje,
                   dados_hoje, removidas, salvo, banco_lido, banco_filtrado,
                   banco_anexado>>

Next ==
    \/ Autenticar
    \/ ListarArquivos
    \/ LocalizarBanco
    \/ LocalizarBusca
    \/ BaixarHoje
    \/ BaixarBanco
    \/ LerPlanilhas
    \/ Filtrar
    \/ Extrair
    \/ Anexar
    \/ Deduplicar
    \/ Salvar
    \/ RegistrarTimestamp

Spec == Init /\ [][Next]_vars

(***************************************************************************)
(* The selector alone, over every listing of at most MaxFiles files.       *)
(***************************************************************************)
InitBusca ==
    /\ pc = "busca"
    /\ erro = ""
    /\ feitas = <<>>
    /\ \E n \in 0..MaxFiles :
          \E nm \in [1..n -> NomesPasta], mt \in [1..n -> ModifiedTimes] :
              arquivos = Listagem(n, nm, mt)
    /\ arquivo_banco = NoneFile
    /\ arquivo_hoje = NoneFile
    /\ df_banco = NoFrame
    /\ df_hoje = NoFrame
    /\ dados_hoje = NoFrame
    /\ removidas = 0
    /\ salvo = NaoSalvo
    /\ banco_lido = NoFrame
    /\ banco_filtrado = NoFrame
    /\ banco_anexado = NoFrame

ChamarBusca ==
    /\ pc = "busca"
    /\ pc' = "busca_fim"
    /\ arquivo_hoje' = encontrar_busca_mais_recente(arquivos, BUSCA_PREFIX)
    /\ UNCHANGED <<erro, feitas, arquivos, arquivo_banco, df_banco, df_hoje,
                   dados_hoje, removidas, salvo, banco_lido, banco_filtrado,
                   banco_anexado>>

NextBusca == ChamarBusca

SpecBusca == InitBusca /\ [][NextBusca]_vars

(***************************************************************************)
(* Properties.  What they need beyond the model: the ascending listing of  *)
(* a set of row numbers, the text of a cell as the specification defines   *)
(* it (a null cell is the empty text), and the texts that write a calendar *)
(* date as day.month.year.                                                 *)
(***************************************************************************)
Max(a, b) == IF a > b THEN a ELSE b

RECURSIVE Crescente(_)
Crescente(S) ==
    IF S = {} THEN <<>>
    ELSE LET m == CHOOSE x \in S : \A y \in S : x <= y
         IN  <<m>> \o Crescente(S \ {m})

TextoDaCelula(c) ==
    LET x == Celula(c)
    IN  CASE x.t = "na"  -> <<>>
          [] x.t = "num" -> NumText(x.v)
          [] OTHER       -> x.s

CelulaVazia(c) == c = Null \/ c = SVazio

DoisDigitos(n) == <<Digits[(n \div 10) + 1], Digits[(n % 10) + 1]>>

FormasDia(d) ==
    {DoisDigitos(d)} \cup (IF d < 10 THEN {<<Digits[d + 1]>>, <<" ", Digits[d + 1]>>} ELSE {})

FormasMes(m) ==
    {DoisDigitos(m)} \cup (IF m < 10 THEN {<<Digits[m + 1]>>} ELSE {})

QuatroDigitos(y) == DoisDigitos(y \div 100) \o DoisDigitos(y % 100)

AnosDaPasta == {2023, 2024}

DiasDoMes(y, m) ==
    <<31, IF y % 4 = 0 /\ (y % 100 # 0 \/ y % 400 = 0) THEN 29 ELSE 28,
      31, 30, 31, 30, 31, 31, 30, 31, 30, 31>>[m]

\* <<text, date>> for every way of writing every date of the years of the folder.
DatasEscritas ==
    UNION { { <<fd \o <<".">> \o fm \o <<".">> \o QuatroDigitos(dt[1]),
                [y |-> dt[1], m |-> dt[2], d |-> dt[3]]>> :
                fd \in FormasDia(dt[3]), fm \in FormasMes(dt[2]) } :
            dt \in { x \in AnosDaPasta \X (1..12) \X (1..31) : x[3] <= DiasDoMes(x[1], x[2]) } }

TextosDeData == { p[1] : p \in DatasEscritas }

DataEscrita(t) == (CHOOSE p \in DatasEscritas : p[1] = t)[2]

\* The date text of a name: the first 10 characters after the prefix, taken
\* after surrounding whitespace is stripped, or taken as they stand.
TextoAposStrip(nome) == Take(Strip(Drop(nome, Len(BUSCA_PREFIX))), 10)

TextoImediato(nome) == Take(Drop(nome, Len(BUSCA_PREFIX)), 10)

Qualifica(nome) == StartsWith(nome, BUSCA_PREFIX) /\ TextoAposStrip(nome) \in TextosDeData

QualificaImediato(nome) == StartsWith(nome, BUSCA_PREFIX) /\ TextoImediato(nome) \in TextosDeData

Candidatos == { i \in 1..Len(arquivos) : Qualifica(arquivos[i].name) }

DataDe(i) == DataEscrita(TextoAposStrip(arquivos[i].name))

Antes(a, b) ==
    \/ a.y < b.y
    \/ a.y = b.y /\ a.m < b.m
    \/ a.y = b.y /\ a.m = b.m /\ a.d < b.d

\* C6: among the candidates with the prefix and a valid date the selector
\* returns the one with the greatest date, the first in the listing when
\* several share it; the choice is fixed by the names and their order alone,
\* whatever the ids and modifiedTimes.
C6_SelecionaMaisRecente ==
    pc = "busca_fim" =>
        IF Candidatos = {} THEN arquivo_hoje = NoneFile
        ELSE \E i \in Candidatos :
                /\ arquivo_hoje = arquivos[i]
                /\ \A j \in Candidatos : ~Antes(DataDe(i), DataDe(j))
                /\ \A j \in Candidatos : j < i => Antes(DataDe(j), DataDe(i))

\* A tie on the greatest date between two differently named files, the later
\* one with the later modifiedTime, and an older candidate in the listing too.
C6_Witness ==
    /\ pc = "busca_fim"
    /\ \E i, j, k \in Candidatos :
          /\ i < j
          /\ DataDe(i) = DataDe(j)
          /\ arquivos[i].name # arquivos[j].name
          /\ arquivos[i].modifiedTime < arquivos[j].modifiedTime
          /\ Antes(DataDe(k), DataDe(i))
          /\ arquivo_hoje = arquivos[i]

\* C7 as stated: a candidate qualifies exactly when its name starts with the
\* prefix and the 10 characters immediately after the prefix are a valid
\* date; nothing is selected when none qualifies.
C7_QualificaSemEspaco ==
    pc = "busca_fim" =>
        /\ (arquivo_hoje # NoneFile) <=>
               (\E i \in 1..Len(arquivos) : QualificaImediato(arquivos[i].name))
        /\ arquivo_hoje # NoneFile => QualificaImediato(arquivo_hoje.name)

\* C7 amended: a candidate qualifies exactly when its name starts with the
\* prefix and the first 10 characters of what follows the prefix, once
\* surrounding whitespace is stripped, are a valid day.month.year date; every
\* other candidate is skipped and nothing is selected when none qualifies.
C7_QualificaAposStrip ==
    pc = "busca_fim" =>
        /\ (arquivo_hoje # NoneFile) <=>
               (\E i \in 1..Len(arquivos) : Qualifica(arquivos[i].name))
        /\ arquivo_hoje # NoneFile =>
               /\ Qualifica(arquivo_hoje.name)
               /\ \E i \in 1..Len(arquivos) : arquivo_hoje = arquivos[i]

\* The only qualifying name has whitespace between prefix and date; a name
\* with an impossible date and a name without the prefix were skipped.
C7_Witness ==
    /\ pc = "busca_fim"
    /\ arquivo_hoje # NoneFile
    /\ Drop(arquivo_hoje.name, Len(BUSCA_PREFIX))[1] = " "
    /\ \E i \in 1..Len(arquivos) :
          /\ StartsWith(arquivos[i].name, BUSCA_PREFIX)
          /\ ~Qualifica(arquivos[i].name)
    /\ \E i \in 1..Len(arquivos) : ~StartsWith(arquivos[i].name, BUSCA_PREFIX)

(***************************************************************************)
(* Properties of the full run.                                             *)
(***************************************************************************)
\* The states right after each stage of main().
Filtrou == pc = "extrair"

Extraiu == pc = "append"

Anexou == pc = "dedup"

Deduplicou == pc = "salvar"

Salvou == pc = "timestamp"

\* The data rows of the BANCO as read whose column N text starts with "Y".
LinhasComY ==
    { i \in (HEADER_ROWS_BANCO + 1)..NRows(banco_lido) :
        StartsWith(TextoDaCelula(banco_lido.rows[i][14]), <<"Y">>) }

\* C3: for a BANCO of at least 14 columns the filter returns the header rows
\* unchanged, then exactly the data rows whose column 13 text (null being the
\* empty text) starts with "Y", in their order; removidas counts the rows
\* dropped.
C3_FiltroPorPrefixo ==
    Filtrou =>
        LET ficam == Crescente(LinhasComY)
        IN  /\ Width(banco_lido) >= 14
            /\ banco_filtrado.cols = banco_lido.cols
            /\ NRows(banco_filtrado) = HEADER_ROWS_BANCO + Len(ficam)
            /\ \A i \in 1..HEADER_ROWS_BANCO :
                  banco_filtrado.rows[i] = banco_lido.rows[i]
            /\ \A k \in 1..Len(ficam) :
                  banco_filtrado.rows[HEADER_ROWS_BANCO + k] = banco_lido.rows[ficam[k]]
            /\ removidas = (NRows(banco_lido) - HEADER_ROWS_BANCO) - Len(ficam)

\* Rows with "y1" and with a null in column N were dropped, a "Y1" row
\* between them was kept, and the header, whose column N is "N2", stayed.
C3_Witness ==
    /\ Filtrou
    /\ NRows(banco_lido) = 4
    /\ banco_lido.rows[1][14] = SN2
    /\ banco_lido.rows[2][14] = Sy1
    /\ banco_lido.rows[3][14] = SY1
    /\ banco_lido.rows[4][14] = Null
    /\ removidas = 2
    /\ NRows(banco_filtrado) = 2

\* The rows of the file of the day from row 6 on with a cell of B..AJ that is
\* neither null nor the empty text.
LinhasNaoBrancas ==
    { i \in (5 + 1)..NRows(df_hoje) :
        \E j \in 2..Min(36, Width(df_hoje)) : ~CelulaVazia(df_hoje.rows[i][j]) }

\* C10: the extraction of rows 5.. and columns 1..35 returns no row whose
\* cells are all empty or null; every source row with a non-empty cell in the
\* range is returned in full, and row and column order is kept.
C10_ExtracaoSemLinhasBrancas ==
    Extraiu =>
        LET ficam == Crescente(LinhasNaoBrancas)
            larg  == Min(36, Width(df_hoje)) - 1
        IN  /\ NRows(dados_hoje) = Len(ficam)
            /\ Width(dados_hoje) = larg
            /\ \A k \in 1..Len(ficam) :
                  /\ Len(dados_hoje.rows[k]) = larg
                  /\ \E j \in 1..larg : ~CelulaVazia(dados_hoje.rows[k][j])
                  /\ \A j \in 1..larg :
                        LET origem == df_hoje.rows[ficam[k]][j + 1]
                        IN  IF CelulaVazia(origem)
                            THEN CelulaVazia(dados_hoje.rows[k][j])
                            ELSE dados_hoje.rows[k][j] = origem

\* A file of 37 columns: a blank row of the range was dropped between two
\* rows that were kept, one of them holding an empty cell.
C10_Witness ==
    /\ Extraiu
    /\ Width(df_hoje) = 37
    /\ NRows(df_hoje) = 5 + 3
    /\ LinhasNaoBrancas = {6, 8}
    /\ NRows(dados_hoje) = 2
    /\ \E j \in 1..Width(dados_hoje) : CelulaVazia(dados_hoje.rows[2][j])

\* C1: the appended table has the rows of the master plus the rows of the
\* delta and max(master width, delta width) columns, also when the delta is
\* wider by 2 or more.
C1_AppendDimensoes ==
    (Anexou /\ ~Empty(dados_hoje)) =>
        /\ NRows(banco_anexado) = NRows(banco_filtrado) + NRows(dados_hoje)
        /\ Width(banco_anexado) = Max(Width(banco_filtrado), Width(dados_hoje))

\* C2: in the appended table the master rows come first with every cell at
\* its column, the delta rows follow in order with the cell of delta column j
\* at position j, and whatever else a row holds is empty.
C2_AppendPosicional ==
    (Anexou /\ ~Empty(dados_hoje)) =>
        LET nb == NRows(banco_filtrado)
        IN  /\ NRows(banco_anexado) = nb + NRows(dados_hoje)
            /\ \A i \in 1..nb : \A j \in 1..Len(banco_anexado.rows[i]) :
                  banco_anexado.rows[i][j] =
                      IF j <= Width(banco_filtrado) THEN banco_filtrado.rows[i][j] ELSE Null
            /\ \A k \in 1..NRows(dados_hoje) : \A j \in 1..Len(banco_anexado.rows[nb + k]) :
                  banco_anexado.rows[nb + k][j] =
                      IF j <= Width(dados_hoje) THEN dados_hoje.rows[k][j] ELSE Null

\* The data rows of the table before deduplication.
LinhasDeDados == (HEADER_ROWS_BANCO + 1)..NRows(banco_anexado)

\* The positions, in the table before deduplication, of the columns of the
\* identity key: every column but those labelled 0, 2, 3 and 20.
PosicoesDaChave ==
    { j \in 1..Width(banco_anexado) : banco_anexado.cols[j] \notin {0, 2, 3, 20} }

\* The identity key of every row, its cells as values.
Chaves ==
    LET pos == PosicoesDaChave
    IN  [i \in 1..NRows(banco_anexado) |-> [j \in pos |-> banco_anexado.rows[i][j]]]

\* The identity key of every row, each cell coerced to text.
ChavesTexto ==
    LET pos == PosicoesDaChave
    IN  [i \in 1..NRows(banco_anexado) |->
            [j \in pos |-> TextoDaCelula(banco_anexado.rows[i][j])]]

\* The data rows that no earlier data row equals in key.
Primeiras(chaves) ==
    { i \in LinhasDeDados : \A j \in LinhasDeDados : j < i => chaves[j] # chaves[i] }

\* C4 as stated: two data rows are duplicates exactly when their keys (all
\* columns but 0, 2, 3 and 20) are equal after textual coercion of each cell;
\* the first row of each key is kept, the later ones dropped, order kept.
C4_DedupPorTexto ==
    Deduplicou =>
        LET ficam == Crescente(Primeiras(ChavesTexto))
        IN  /\ NRows(df_banco) = HEADER_ROWS_BANCO + Len(ficam)
            /\ \A k \in 1..Len(ficam) :
                  df_banco.rows[HEADER_ROWS_BANCO + k] = banco_anexado.rows[ficam[k]]

\* C4 amended: two data rows are duplicates exactly when their cells at all
\* columns but those labelled 0, 2, 3 and 20 are equal as values (null equal
\* to null, a number never equal to a text); the first row of each key is
\* kept, the later ones dropped, order kept.
C4_DedupPorValor ==
    Deduplicou =>
        LET ficam == Crescente(Primeiras(Chaves))
        IN  /\ NRows(df_banco) = HEADER_ROWS_BANCO + Len(ficam)
            /\ \A k \in 1..Len(ficam) :
                  df_banco.rows[HEADER_ROWS_BANCO + k] = banco_anexado.rows[ficam[k]]

\* Three data rows: the second differs from the first in ignored columns only
\* and was dropped, the third differs in a key column and was kept.
C4_Witness ==
    LET chaves == Chaves
        textos == ChavesTexto
    IN  /\ Deduplicou
        /\ NRows(banco_anexado) = 4
        /\ Width(banco_anexado) >= 21
        /\ banco_anexado.rows[2][1] # banco_anexado.rows[3][1]
        /\ banco_anexado.rows[2][21] # banco_anexado.rows[3][21]
        /\ chaves[2] = chaves[3]
        /\ chaves[2] # chaves[4]
        /\ textos[2] = textos[4]
        /\ NRows(df_banco) = 3
        /\ df_banco.rows[2] = banco_anexado.rows[2]
        /\ df_banco.rows[3] = banco_anexado.rows[4]

\* C5: deduplicating the deduplicated table returns it unchanged.
C5_DedupIdempotente ==
    Deduplicou => DeduplicarBanco(df_banco) = df_banco

\* Deduplication dropped a row and left at least two data rows.
C5_Witness ==
    /\ Deduplicou
    /\ NRows(df_banco) < NRows(banco_anexado)
    /\ NRows(df_banco) >= HEADER_ROWS_BANCO + 2

EtapasAteSalvar ==
    <<"autenticar", "listar", "localizar_banco", "localizar_busca", "baixar_hoje",
      "baixar_banco", "ler", "filtrar", "extrair", "append", "dedup">>

\* C8: the save comes after every earlier stage has completed and the
\* timestamp right after the save; an empty listing, a missing BANCO or file
\* of the day, a BANCO of 13 columns or fewer or a failed call aborts the
\* run, and nothing is saved or stamped after an abort.
C8_SalvaSoNoFim ==
    LET completas == IF pc = "abortado" THEN SubSeq(feitas, 1, Len(feitas) - 1) ELSE feitas
        todas     == EtapasAteSalvar \o <<"salvar", "timestamp">>
    IN  /\ Len(completas) <= Len(todas)
        /\ completas = SubSeq(todas, 1, Len(completas))
        /\ pc = "abortado" <=> (feitas # <<>> /\ feitas[Len(feitas)] = "abortado")
        /\ pc = "abortado" <=> erro # ""
        /\ pc = "fim" <=> completas = todas
        /\ salvo.gravado <=> Len(completas) > Len(EtapasAteSalvar)
        /\ salvo.gravado =>
              /\ \E i \in 1..Len(arquivos) : arquivos[i].name = BANCO_NAME
              /\ \E i \in 1..Len(arquivos) : Qualifica(arquivos[i].name)
              /\ Width(banco_lido) > 13
              /\ salvo.linhas = df_banco.rows
        /\ erro \in {"lista_vazia", "sem_banco", "sem_busca", "sem_coluna_N"} =>
              ~salvo.gravado
        /\ (pc \notin {"inicio", "listar"} /\ erro # "falha_externa") =>
              /\ arquivos = <<>> <=> erro = "lista_vazia"
        /\ (pc \notin {"inicio", "listar", "localizar_banco"} /\ erro \notin {"falha_externa", "lista_vazia"}) =>
              /\ (\A i \in 1..Len(arquivos) : arquivos[i].name # BANCO_NAME) <=> erro = "sem_banco"

\* A run that went through: every stage, then the save, then the timestamp.
C8_Witness ==
    /\ pc = "fim"
    /\ salvo.gravado
    /\ feitas = EtapasAteSalvar \o <<"salvar", "timestamp">>

\* C9: the first HEADER_ROWS_BANCO rows of the saved table are those of the
\* BANCO as read, cell by cell, followed only by empty cells; the filter kept
\* them whatever their column N, and deduplication neither dropped them nor
\* dropped a data row for being equal to them.
C9_CabecalhoPreservado ==
    /\ Filtrou =>
          /\ NRows(banco_filtrado) >= HEADER_ROWS_BANCO
          /\ \A r \in 1..HEADER_ROWS_BANCO : banco_filtrado.rows[r] = banco_lido.rows[r]
    /\ Salvou =>
          /\ salvo.gravado
          /\ Len(salvo.linhas) >= HEADER_ROWS_BANCO
          /\ \A r \in 1..HEADER_ROWS_BANCO :
                /\ Len(salvo.linhas[r]) >= Width(banco_lido)
                /\ \A j \in 1..Len(salvo.linhas[r]) :
                      salvo.linhas[r][j] =
                          IF j <= Width(banco_lido) THEN banco_lido.rows[r][j] ELSE Null
          /\ LET pos == PosicoesDaChave
             IN  \A i \in LinhasDeDados :
                    \E k \in (HEADER_ROWS_BANCO + 1)..Len(salvo.linhas) :
                        \A j \in pos : salvo.linhas[k][j] = banco_anexado.rows[i][j]

\* Saved: the header's column N is "N2", the table was widened, and a data
\* row with the header's key is in the saved table.
C9_Witness ==
    /\ Salvou
    /\ banco_lido.rows[1][14] = SN2
    /\ Len(salvo.linhas[1]) > Width(banco_lido)
    /\ LET chaves == Chaves IN \E i \in LinhasDeDados : chaves[i] = chaves[1]

====
